---- MODULE Spec2Model ----
(***************************************************************************)
(* Model of plot_forecast.py: the Plotly helper that assembles a figure    *)
(* from a Prophet model object and a forecast table.                       *)
(*                                                                         *)
(* Python objects are modelled by value:                                   *)
(*   - a dict / DataFrame / model object is a function whose DOMAIN is the *)
(*     set of keys / columns / attributes that are present;                *)
(*   - a figure is a record [data, layout]; data is the sequence of traces;*)
(*   - a property that was never set holds "" (strings) or -1 (numbers);   *)
(*   - non-integral numbers are kept as their decimal text ("0.5").        *)
(* An exception is the name of its class in the field exc ("" = none).     *)
(***************************************************************************)
EXTENDS Integers, Sequences, FiniteSets, TLC

VARIABLES
  DEFAULT_PALETTE,  \* the value of the module's dict DEFAULT_PALETTE
  m,                \* the caller's model object
  fcst,             \* the caller's forecast table
  fcst0,            \* the forecast table as it was before the first call
  fig,              \* the figure the caller holds
  last,             \* the last call that ended: its arguments and outcome
  calls,            \* per thread: where its call is, and the call's locals
  locals            \* per thread: the value of the dict its call made

vars == <<DEFAULT_PALETTE, m, fcst, fcst0, fig, last, calls, locals>>

(***************************************************************************)
(* Bounds of the model.                                                    *)
(***************************************************************************)
\* largest value of the model's uncertainty_samples attribute
MaxSamples == 1
\* a caller passes its figure to plot_forecast only while it has at most
\* this many traces
MaxExisting == 2
\* number of rows of the forecast table and of the history table
NRows == 2
\* number of threads that call plot_forecast at the same time
NThreads == 2

(***************************************************************************)
(* Names used by the code.                                                 *)
(***************************************************************************)
Roles == {"forecast", "observed", "cap", "uncertainty"}

RequiredColumns == {"ds", "yhat"}

OptionalColumns == {"yhat_lower", "yhat_upper", "cap", "floor"}

\* the colour a caller puts in its colors argument
UserColor == "#ABCDEF"

\* the caller's colors argument: None, or a dict from keys to colours
ColorsNone == [given |-> FALSE, map |-> [k \in {} |-> UserColor]]

ColorsDict(keys) == [given |-> TRUE, map |-> [k \in keys |-> UserColor]]

\* module constant, lines 33-38
DefaultColors ==
  [forecast    |-> "#0D47A1",
   observed    |-> "#FF6F00",
   cap         |-> "#000000",
   uncertainty |-> "rgba(0, 114, 178, 0.2)"]

(***************************************************************************)
(* Tables (pandas DataFrame): column name -> sequence of row values.       *)
(***************************************************************************)
ColumnBase(c) ==
  CASE c = "ds"         -> 0
    [] c = "yhat"       -> 20
    [] c = "yhat_lower" -> 10
    [] c = "yhat_upper" -> 30
    [] c = "cap"        -> 40
    [] c = "floor"      -> 50
    [] c = "y"          -> 60

MakeTable(cols) == [c \in cols |-> [i \in 1..NRows |-> ColumnBase(c) + i]]

ForecastTables == {MakeTable(RequiredColumns \cup opt) : opt \in SUBSET OptionalColumns}

HistoryTable == MakeTable({"ds", "y"})

(***************************************************************************)
(* Model objects: attribute name -> value, for the attributes that exist.  *)
(***************************************************************************)
NoAttrs == [a \in {} |-> 0]

HistoryAttr(present) == IF present THEN "history" :> HistoryTable ELSE NoAttrs

FloorAttr(v) == IF v = "absent" THEN NoAttrs ELSE "logistic_floor" :> (v = "True")

SamplesAttr(v) == IF v < 0 THEN NoAttrs ELSE "uncertainty_samples" :> v

ModelObject(h, lf, us) == HistoryAttr(h) @@ FloorAttr(lf) @@ SamplesAttr(us)

ModelObjects ==
  {ModelObject(h, lf, us) : h \in BOOLEAN, lf \in {"absent", "False", "True"},
                            us \in (-1)..MaxSamples}

\* Python's hasattr(obj, name) and getattr(obj, name, default)
hasattr(obj, name) == name \in DOMAIN obj

getattr(obj, name, default) == IF name \in DOMAIN obj THEN obj[name] ELSE default

(***************************************************************************)
(* Figures and traces (plotly.graph_objects).                              *)
(***************************************************************************)
\* go.Scatter() with no property set
go_Scatter ==
  [name |-> "", x |-> <<>>, y |-> <<>>, mode |-> "",
   line_color |-> "", line_width |-> -1, line_dash |-> "",
   marker_color |-> "", marker_size |-> -1, marker_opacity |-> -1,
   fill |-> "", fillcolor |-> "", hoverinfo |-> "", showlegend |-> ""]

EmptyLayout ==
  [width |-> -1, height |-> -1,
   margin |-> [l |-> -1, r |-> -1, t |-> -1, b |-> -1],
   title_text |-> "unset", title_x |-> "",
   xaxis_title |-> "", yaxis_title |-> "", hovermode |-> "",
   showlegend |-> "", legend_orientation |-> "",
   legend_yanchor |-> "", legend_y |-> ""]

\* go.Figure(), line 176
go_Figure == [data |-> <<>>, layout |-> EmptyLayout]

\* fig.add_trace(trace): the trace goes to the end of fig.data
add_trace(f, trace) == [f EXCEPT !.data = Append(@, trace)]

\* a trace the caller put on its own figure before calling plot_forecast
CallerTrace ==
  [go_Scatter EXCEPT !.name = "caller trace", !.x = <<1>>, !.y = <<1>>,
                     !.mode = "lines", !.showlegend = "True"]

\* figures a caller may hold before its first call
CallerFigures ==
  {go_Figure,
   [data |-> <<CallerTrace>>,
    layout |-> [EmptyLayout EXCEPT !.showlegend = "True", !.legend_orientation = "v"]]}

\* result of a helper: the figure as the helper left it, and the exception
Ok(f) == [fig |-> f, exc |-> ""]

Raise(f, e) == [fig |-> f, exc |-> e]

(***************************************************************************)
(* The traces the helpers build (the go.Scatter(...) expressions).  Each   *)
(* is evaluated only when the columns and palette keys it reads exist.     *)
(***************************************************************************)
ForecastTrace(fc, palette) ==
  [go_Scatter EXCEPT !.x = fc["ds"], !.y = fc["yhat"], !.mode = "lines",
                     !.line_color = palette["forecast"], !.line_width = 2,
                     !.name = "Forecast"]

ObservedTrace(mo, palette) ==
  [go_Scatter EXCEPT !.x = mo["history"]["ds"], !.y = mo["history"]["y"],
                     !.mode = "markers", !.marker_color = palette["observed"],
                     !.marker_size = 4, !.marker_opacity = 1,
                     !.name = "Observed data points"]

CapTrace(fc, palette) ==
  [go_Scatter EXCEPT !.x = fc["ds"], !.y = fc["cap"], !.mode = "lines",
                     !.line_dash = "dash", !.line_color = palette["cap"],
                     !.name = "Maximum capacity"]

FloorTrace(fc, palette) ==
  [go_Scatter EXCEPT !.x = fc["ds"], !.y = fc["floor"], !.mode = "lines",
                     !.line_dash = "dash", !.line_color = palette["cap"],
                     !.name = "Minimum capacity"]

UpperTrace(fc) ==
  [go_Scatter EXCEPT !.x = fc["ds"], !.y = fc["yhat_upper"], !.mode = "lines",
                     !.line_width = 0, !.hoverinfo = "skip",
                     !.showlegend = "False"]

LowerTrace(fc, palette) ==
  [go_Scatter EXCEPT !.x = fc["ds"], !.y = fc["yhat_lower"], !.mode = "lines",
                     !.line_width = 0, !.fill = "tonexty",
                     !.fillcolor = palette["uncertainty"], !.hoverinfo = "skip",
                     !.name = "Uncertainty interval"]

\* d[k] for every k of keys succeeds (no KeyError)
HasKeys(d, keys) == keys \subseteq DOMAIN d

(***************************************************************************)
(* The helper functions.                                                   *)
(***************************************************************************)
_add_forecast(f, fc, palette) ==
  IF HasKeys(fc, {"ds", "yhat"}) /\ HasKeys(palette, {"forecast"})
  THEN Ok(add_trace(f, ForecastTrace(fc, palette)))
  ELSE Raise(f, "KeyError")

\* a slip: the test looks for an attribute the model never has
_add_observed_wrong_attr(f, mo, palette) ==
  IF hasattr(mo, "history_dates")
  THEN Ok(add_trace(f, ObservedTrace(mo, palette)))
  ELSE Ok(f)

_add_observed(f, mo, palette) ==
  IF hasattr(mo, "history")
  THEN IF HasKeys(mo["history"], {"ds", "y"}) /\ HasKeys(palette, {"observed"})
       THEN Ok(add_trace(f, ObservedTrace(mo, palette)))
       ELSE Raise(f, "KeyError")
  ELSE Ok(f)

\* a slip: the floor line nested under the test for the cap column
_add_capacity_nested(f, mo, fc, palette) ==
  IF "cap" \in DOMAIN fc
  THEN LET f1 == add_trace(f, CapTrace(fc, palette))
       IN  IF getattr(mo, "logistic_floor", FALSE) /\ "floor" \in DOMAIN fc
           THEN Ok(add_trace(f1, FloorTrace(fc, palette)))
           ELSE Ok(f1)
  ELSE Ok(f)

_add_capacity(f, mo, fc, palette) ==
  LET r1 == IF "cap" \in DOMAIN fc
            THEN IF HasKeys(fc, {"ds"}) /\ HasKeys(palette, {"cap"})
                 THEN Ok(add_trace(f, CapTrace(fc, palette)))
                 ELSE Raise(f, "KeyError")
            ELSE Ok(f)
  IN  IF r1.exc # ""
      THEN r1
      ELSE IF getattr(mo, "logistic_floor", FALSE) /\ "floor" \in DOMAIN fc
           THEN IF HasKeys(fc, {"ds"}) /\ HasKeys(palette, {"cap"})
                THEN Ok(add_trace(r1.fig, FloorTrace(fc, palette)))
                ELSE Raise(r1.fig, "KeyError")
           ELSE r1

\* a slip: >= 0 for > 0, so a model without samples gets a band too
_add_uncertainty_ge(f, mo, fc, palette) ==
  IF getattr(mo, "uncertainty_samples", 0) >= 0
  THEN IF HasKeys(fc, {"ds", "yhat_upper", "yhat_lower"})
       THEN Ok(add_trace(add_trace(f, UpperTrace(fc)), LowerTrace(fc, palette)))
       ELSE Raise(f, "KeyError")
  ELSE Ok(f)

\* a slip: the filled lower trace added before the upper-bound trace
_add_uncertainty_swapped(f, mo, fc, palette) ==
  IF getattr(mo, "uncertainty_samples", 0) > 0
  THEN IF HasKeys(fc, {"ds", "yhat_upper", "yhat_lower"})
       THEN Ok(add_trace(add_trace(f, LowerTrace(fc, palette)), UpperTrace(fc)))
       ELSE Raise(f, "KeyError")
  ELSE Ok(f)

_add_uncertainty(f, mo, fc, palette) ==
  IF getattr(mo, "uncertainty_samples", 0) > 0
  THEN IF HasKeys(fc, {"ds", "yhat_upper"})
       THEN LET f1 == add_trace(f, UpperTrace(fc))
            IN  IF HasKeys(fc, {"yhat_lower"}) /\ HasKeys(palette, {"uncertainty"})
                THEN Ok(add_trace(f1, LowerTrace(fc, palette)))
                ELSE Raise(f1, "KeyError")
       ELSE Raise(f, "KeyError")
  ELSE Ok(f)

(***************************************************************************)
(* The steps of plot_forecast.                                             *)
(***************************************************************************)
\* reversing the rows of a table (what an in-place descending sort does to
\* a table in ascending order)
ReverseRows(t) ==
  [c \in DOMAIN t |-> [i \in 1..Len(t[c]) |-> t[c][Len(t[c]) + 1 - i]]]

\* a slip: the table put in order in place instead of copied
FcstSortInPlace(t) == [caller |-> ReverseRows(t), local |-> ReverseRows(t)]

\* fcst = fcst.copy(): the caller's table as the statement leaves it, and
\* the table the local name fcst is bound to afterwards
FcstCopy(t) == [caller |-> t, local |-> t]

\* a slip: setdefault for update, the keys d already has keep their values
dict_setdefault(d, other) ==
  [k \in DOMAIN d \cup DOMAIN other |-> IF k \in DOMAIN d THEN d[k] ELSE other[k]]

\* dict.update: the keys of other are set in d
dict_update(d, other) ==
  [k \in DOMAIN d \cup DOMAIN other |-> IF k \in DOMAIN other THEN other[k] ELSE d[k]]

\* Python's truth value of the colors argument: None and {} are false
ColorsTruthy(colors) == colors.given /\ DOMAIN colors.map # {}

(***************************************************************************)
(* Dict objects.  A name refers to an object; object ModuleDict is the     *)
(* dict the module binds to DEFAULT_PALETTE, object t > 0 is the dict the  *)
(* call numbered t makes for its local name palette.  A heap gives each    *)
(* object its value.                                                       *)
(***************************************************************************)
ModuleDict == 0

NoDict == [k \in {} |-> ""]

NoTable == [c \in {} |-> <<>>]

Heap(DP, loc) ==
  [o \in {ModuleDict} \cup DOMAIN loc |-> IF o = ModuleDict THEN DP ELSE loc[o]]

\* a slip: palette = DEFAULT_PALETTE, the name bound to the module's dict
dict_alias(h, src, new) == [obj |-> src, heap |-> h]

\* src.copy(): a new object new with the value of src; obj is the object
\* the result refers to
dict_copy(h, src, new) == [obj |-> new, heap |-> [h EXCEPT ![new] = h[src]]]

\* obj.update(other)
update_at(h, obj, other) == [h EXCEPT ![obj] = dict_update(@, other)]

\* palette = DEFAULT_PALETTE.copy(); if colors: palette.update(colors)
\* gives the local palette and the module's dict as the statements leave it
ResolvePalette(DP, colors) ==
  LET c == dict_copy(Heap(DP, [o \in {1} |-> NoDict]), ModuleDict, 1)
      h == IF ColorsTruthy(colors) THEN update_at(c.heap, c.obj, colors.map) ELSE c.heap
  IN  [palette |-> h[c.obj], DEFAULT_PALETTE |-> h[ModuleDict]]

\* fig = fig or go.Figure(): a Figure object is always true
FigOrNew(figGiven, figObj) == IF figGiven THEN figObj ELSE go_Figure

\* the first fig.update_layout(...)
update_layout(layout, width, height, xlabel, ylabel) ==
  [layout EXCEPT !.width = width, !.height = height,
                 !.margin = [l |-> 60, r |-> 40, t |-> 60, b |-> 60],
                 !.title_text = "", !.title_x = "0.5",
                 !.xaxis_title = xlabel, !.yaxis_title = ylabel,
                 !.hovermode = "x unified"]

\* a slip: the else branch left out
LegendHandling_no_hide(layout, include_legend) ==
  IF include_legend
  THEN [layout EXCEPT !.legend_orientation = "h", !.legend_yanchor = "bottom",
                      !.legend_y = "1.02"]
  ELSE layout

\* the legend handling at the end
LegendHandling(layout, include_legend) ==
  IF include_legend
  THEN [layout EXCEPT !.legend_orientation = "h", !.legend_yanchor = "bottom",
                      !.legend_y = "1.02"]
  ELSE [layout EXCEPT !.showlegend = "False"]

\* The call from "Create or reuse the figure" to the return, with the local
\* table fc and the resolved palette.  exc = "" when the call returns fig;
\* otherwise fig is the figure object as the exception left it.
PlotBody(mo, fc, figGiven, figObj, uncertainty, plot_cap, xlabel, ylabel, width, height, include_legend, palette) ==
  LET f0   == FigOrNew(figGiven, figObj)
      s1   == _add_forecast(f0, fc, palette)
      s2   == IF s1.exc = "" THEN _add_observed(s1.fig, mo, palette) ELSE s1
      s3   == IF s2.exc = "" /\ plot_cap
              THEN _add_capacity(s2.fig, mo, fc, palette) ELSE s2
      s4   == IF s3.exc = "" /\ uncertainty
              THEN _add_uncertainty(s3.fig, mo, fc, palette) ELSE s3
      done == IF s4.exc = ""
              THEN [s4.fig EXCEPT !.layout =
                      LegendHandling(update_layout(@, width, height, xlabel, ylabel),
                                     include_legend)]
              ELSE s4.fig
  IN  [exc |-> s4.exc, fig |-> done]

\* The whole call: its outcome, and the caller's table and the module's
\* dict as it leaves them.
plot_forecast(mo, fc, figGiven, figObj, uncertainty, plot_cap, xlabel, ylabel, width, height, include_legend, colors, DP) ==
  LET cp == FcstCopy(fc)
      rp == ResolvePalette(DP, colors)
      r  == PlotBody(mo, cp.local, figGiven, figObj, uncertainty, plot_cap, xlabel,
                     ylabel, width, height, include_legend, rp.palette)
  IN  [exc |-> r.exc, fig |-> r.fig, fcst |-> cp.caller,
       DEFAULT_PALETTE |-> rp.DEFAULT_PALETTE, palette |-> rp.palette]

(***************************************************************************)
(* The state machine: a caller that holds a model object, a forecast table *)
(* and a figure, and calls plot_forecast again and again.                  *)
(***************************************************************************)
\* defaults of the keyword arguments
DefaultWidth == 800

DefaultHeight == 600

NoCall ==
  [called |-> FALSE, figGiven |-> FALSE, uncertainty |-> FALSE, plot_cap |-> FALSE,
   include_legend |-> FALSE, colors |-> ColorsNone, pre |-> go_Figure,
   exc |-> "", palette |-> DefaultColors, built |-> go_Figure]

\* One call plot_forecast(m, fcst, fig=..., ...) from start to end.  With
\* figGiven the caller passes the figure it holds (the call works on that
\* object); without, it passes fig=None and keeps the returned figure.
PlotForecast(figGiven, uncertainty, plot_cap, include_legend, colors) ==
  /\ figGiven => Len(fig.data) <= MaxExisting
  /\ \E r \in {plot_forecast(m, fcst, figGiven, fig, uncertainty, plot_cap, "ds", "y",
                            DefaultWidth, DefaultHeight, include_legend, colors,
                            DEFAULT_PALETTE)} :
         /\ DEFAULT_PALETTE' = r.DEFAULT_PALETTE
         /\ fcst' = r.fcst
         /\ fig' = IF figGiven \/ r.exc = "" THEN r.fig ELSE fig
         /\ last' = [called |-> TRUE, figGiven |-> figGiven,
                     uncertainty |-> uncertainty, plot_cap |-> plot_cap,
                     include_legend |-> include_legend, colors |-> colors,
                     pre |-> IF figGiven THEN fig ELSE go_Figure,
                     exc |-> r.exc, palette |-> r.palette, built |-> r.fig]
  /\ UNCHANGED <<m, fcst0, calls, locals>>

(***************************************************************************)
(* Calls in threads: call t runs plot_forecast(m, fcst) with a colors      *)
(* argument and the other options at their defaults, in three steps, and   *)
(* the steps of different calls interleave.                                *)
(***************************************************************************)
Threads == 1..NThreads

IdleCall == [pc |-> "idle", colors |-> ColorsNone, palette |-> -1, fcst |-> NoTable]

\* fcst = fcst.copy(); palette = DEFAULT_PALETTE.copy()
T_Begin(t, colors) ==
  /\ calls[t].pc = "idle"
  /\ \E cp \in {FcstCopy(fcst)} :
       \E c \in {dict_copy(Heap(DEFAULT_PALETTE, locals), ModuleDict, t)} :
         /\ fcst' = cp.caller
         /\ DEFAULT_PALETTE' = c.heap[ModuleDict]
         /\ locals' = [o \in Threads |-> c.heap[o]]
         /\ calls' = [calls EXCEPT ![t] = [pc |-> "copied", colors |-> colors,
                                           palette |-> c.obj, fcst |-> cp.local]]
  /\ UNCHANGED <<m, fcst0, fig, last>>

\* if colors: palette.update(colors)
T_Update(t) ==
  /\ calls[t].pc = "copied"
  /\ \E h \in {IF ColorsTruthy(calls[t].colors)
               THEN update_at(Heap(DEFAULT_PALETTE, locals), calls[t].palette,
                              calls[t].colors.map)
               ELSE Heap(DEFAULT_PALETTE, locals)} :
       /\ DEFAULT_PALETTE' = h[ModuleDict]
       /\ locals' = [o \in Threads |-> h[o]]
  /\ calls' = [calls EXCEPT ![t].pc = "resolved"]
  /\ UNCHANGED <<m, fcst, fcst0, fig, last>>

\* the rest of the call, on a new figure; the caller keeps the figure
T_Finish(t) ==
  /\ calls[t].pc = "resolved"
  /\ \E palette \in {Heap(DEFAULT_PALETTE, locals)[calls[t].palette]} :
       \E r \in {PlotBody(m, calls[t].fcst, FALSE, go_Figure, TRUE, TRUE, "ds", "y",
                          DefaultWidth, DefaultHeight, FALSE, palette)} :
         /\ fig' = IF r.exc = "" THEN r.fig ELSE fig
         /\ last' = [called |-> TRUE, figGiven |-> FALSE, uncertainty |-> TRUE,
                     plot_cap |-> TRUE, include_legend |-> FALSE,
                     colors |-> calls[t].colors, pre |-> go_Figure,
                     exc |-> r.exc, palette |-> palette, built |-> r.fig]
  /\ calls' = [calls EXCEPT ![t] = IdleCall]
  /\ locals' = [locals EXCEPT ![t] = NoDict]
  /\ UNCHANGED <<DEFAULT_PALETTE, m, fcst, fcst0>>

\* colors arguments of the palette specification: None, {}, every dict over
\* the four roles, and dicts with a key that is no role
AllColors ==
  {ColorsNone} \cup {ColorsDict(ks) : ks \in SUBSET Roles}
               \cup {ColorsDict({"extra"}), ColorsDict({"forecast", "extra"})}

\* colors arguments of the calls in threads
ThreadColors == {ColorsNone, ColorsDict({"forecast"}), ColorsDict({"cap", "extra"})}

NoCalls ==
  /\ calls = [t \in Threads |-> IdleCall]
  /\ locals = [t \in Threads |-> NoDict]

Init ==
  /\ DEFAULT_PALETTE = DefaultColors
  /\ m \in ModelObjects
  /\ fcst \in ForecastTables
  /\ fcst0 = fcst
  /\ fig \in CallerFigures
  /\ last = NoCall
  /\ NoCalls

\* The main specification: every model object, every table, every setting of
\* the boolean options; no colors argument.
Next ==
  \E figGiven, uncertainty, plot_cap, include_legend \in BOOLEAN :
    PlotForecast(figGiven, uncertainty, plot_cap, include_legend, ColorsNone)

Spec == Init /\ [][Next]_vars

\* The palette specification: a model with every attribute or with none, a
\* table with every column or with the required ones, every colors argument;
\* the legend option is left at its default.
InitPalette ==
  /\ DEFAULT_PALETTE = DefaultColors
  /\ m \in {ModelObject(TRUE, "True", MaxSamples), NoAttrs}
  /\ fcst \in {MakeTable(RequiredColumns \cup OptionalColumns), MakeTable(RequiredColumns)}
  /\ fcst0 = fcst
  /\ fig \in CallerFigures
  /\ last = NoCall
  /\ NoCalls

NextPalette ==
  \E figGiven, uncertainty, plot_cap \in BOOLEAN :
    \E colors \in AllColors :
      PlotForecast(figGiven, uncertainty, plot_cap, FALSE, colors)

SpecPalette == InitPalette /\ [][NextPalette]_vars

\* The threads specification: the calls of the threads, step by step.
NextThreads ==
  \E t \in Threads :
    \/ \E colors \in ThreadColors : T_Begin(t, colors)
    \/ T_Update(t)
    \/ T_Finish(t)

SpecThreads == InitPalette /\ [][NextThreads]_vars

(***************************************************************************)
(* Vocabulary of the properties.                                           *)
(***************************************************************************)
\* the traces the last call put on the figure it worked on
Added == SubSeq(last.built.data, Len(last.pre.data) + 1, Len(last.built.data))

HasNamed(traces, name) == \E i \in DOMAIN traces : traces[i].name = name

\* the invisible upper-bound trace: no name, no line, no hover, not in the
\* legend, no fill
IsUpperBound(t) ==
  /\ t.name = ""
  /\ t.line_width = 0
  /\ t.hoverinfo = "skip"
  /\ t.showlegend = "False"
  /\ t.fill = ""

IsLowerBound(t) == t.name = "Uncertainty interval" /\ t.fill = "tonexty"

\* the band: the upper-bound trace directly followed by the filled trace
BandAdded ==
  \E i \in DOMAIN Added :
    i < Len(Added) /\ IsUpperBound(Added[i]) /\ IsLowerBound(Added[i + 1])

AnyBandTrace ==
  \E i \in DOMAIN Added : IsUpperBound(Added[i]) \/ IsLowerBound(Added[i])

\* the model's uncertainty_samples is greater than 0 (absent: it is not)
PositiveSamples == hasattr(m, "uncertainty_samples") /\ m["uncertainty_samples"] > 0

\* the model's logistic_floor is set
FloorSet == hasattr(m, "logistic_floor") /\ m["logistic_floor"]

BandColumns == {"yhat_upper", "yhat_lower"}

Returned == last.called /\ last.exc = ""

\* place of a trace of the call in the fixed order; 0 for any other trace
Rank(t) ==
  CASE t.name = "Forecast"             -> 1
    [] t.name = "Observed data points" -> 2
    [] t.name = "Maximum capacity"     -> 3
    [] t.name = "Minimum capacity"     -> 4
    [] IsUpperBound(t)                 -> 5
    [] IsLowerBound(t)                 -> 6
    [] OTHER                           -> 0

\* the colour the caller's colors argument and the defaults give a role
ExpectedColor(r) ==
  IF last.colors.given /\ r \in DOMAIN last.colors.map
  THEN last.colors.map[r]
  ELSE DefaultColors[r]

\* the colour a trace of the call is drawn in, by the role of the trace
DrawnAs(t, r) ==
  CASE r = "forecast"    -> t.name = "Forecast" => t.line_color = ExpectedColor(r)
    [] r = "observed"    -> t.name = "Observed data points" => t.marker_color = ExpectedColor(r)
    [] r = "cap"         -> t.name \in {"Maximum capacity", "Minimum capacity"}
                              => t.line_color = ExpectedColor(r)
    [] r = "uncertainty" -> t.name = "Uncertainty interval" => t.fillcolor = ExpectedColor(r)

(***************************************************************************)
(* The properties.                                                         *)
(***************************************************************************)
\* C1: when the table has yhat_upper and yhat_lower, a call adds the band
\* (upper-bound trace, then the filled 'Uncertainty interval' trace) if and
\* only if uncertainty is true and the model's uncertainty_samples is > 0;
\* without the band no band trace is added at all, so a model without the
\* attribute or with the value 0 gets none whatever the option.
C1_BandIffSamples ==
  (last.called /\ BandColumns \subseteq DOMAIN fcst) =>
    /\ BandAdded <=> (last.uncertainty /\ PositiveSamples)
    /\ ~BandAdded => ~AnyBandTrace
    /\ ~PositiveSamples => ~AnyBandTrace

C1_Witness ==
  /\ last.called
  /\ BandColumns \subseteq DOMAIN fcst
  /\ last.uncertainty
  /\ PositiveSamples
  /\ BandAdded

\* C2: in the returned figure the traces that were on the figure before the
\* call are an unchanged prefix; the traces of the call follow, Forecast
\* first, in the fixed order Forecast, Observed data points, Maximum
\* capacity, Minimum capacity, upper bound, Uncertainty interval; and the
\* trace right before an 'Uncertainty interval' trace of the call is the
\* upper-bound trace of the same call.
C2_AppendedInOrder ==
  Returned =>
    /\ fig = last.built
    /\ Len(fig.data) > Len(last.pre.data)
    /\ SubSeq(fig.data, 1, Len(last.pre.data)) = last.pre.data
    /\ Added[1].name = "Forecast"
    /\ \A i \in DOMAIN Added : Rank(Added[i]) > 0
    /\ \A i, j \in DOMAIN Added : i < j => Rank(Added[i]) < Rank(Added[j])
    /\ \A i \in DOMAIN fig.data :
         (i > Len(last.pre.data) /\ IsLowerBound(fig.data[i])) =>
           /\ i - 1 > Len(last.pre.data)
           /\ IsUpperBound(fig.data[i - 1])

C2_Witness ==
  /\ Returned
  /\ last.pre.data # <<>>
  /\ Len(Added) = 6
  /\ IsUpperBound(fig.data[Len(fig.data) - 1])
  /\ IsLowerBound(fig.data[Len(fig.data)])

\* C3: a call adds 'Maximum capacity' iff plot_cap and the table has a cap
\* column, and 'Minimum capacity' iff plot_cap, the model's logistic_floor
\* is set and the table has a floor column; neither depends on the other.
C3_CapacityIff ==
  last.called =>
    /\ HasNamed(Added, "Maximum capacity") <=> (last.plot_cap /\ "cap" \in DOMAIN fcst)
    /\ HasNamed(Added, "Minimum capacity")
         <=> (last.plot_cap /\ FloorSet /\ "floor" \in DOMAIN fcst)

C3_Witness ==
  /\ last.called
  /\ "cap" \notin DOMAIN fcst
  /\ HasNamed(Added, "Minimum capacity")
  /\ ~HasNamed(Added, "Maximum capacity")

\* C4: under every setting of the options a call adds 'Observed data points'
\* iff the model has a history attribute; without it the later steps still
\* run: the capacity line is added when its condition holds, and the call
\* returns whenever the band's columns are there.
C4_ObservedIffHistory ==
  last.called =>
    /\ HasNamed(Added, "Observed data points") <=> hasattr(m, "history")
    /\ ~hasattr(m, "history") =>
         /\ (last.plot_cap /\ "cap" \in DOMAIN fcst) => HasNamed(Added, "Maximum capacity")
         /\ BandColumns \subseteq DOMAIN fcst => last.exc = ""

C4_Witness ==
  /\ Returned
  /\ ~hasattr(m, "history")
  /\ ~HasNamed(Added, "Observed data points")
  /\ HasNamed(Added, "Maximum capacity")
  /\ BandAdded

\* C5: the palette a call works with has all four roles, each with the
\* caller's colour when the colors argument overrides it and with the
\* default colour otherwise, and every trace of the call is drawn in the
\* colour of its role.
C5_PaletteMerged ==
  last.called =>
    /\ Roles \subseteq DOMAIN last.palette
    /\ \A r \in Roles : last.palette[r] = ExpectedColor(r)
    /\ \A i \in DOMAIN Added : \A r \in Roles : DrawnAs(Added[i], r)

C5_Witness ==
  /\ Returned
  /\ last.colors.given
  /\ DOMAIN last.colors.map = {"observed", "uncertainty"}
  /\ Len(Added) = 6
  /\ Added[1].line_color = DefaultColors["forecast"]
  /\ Added[2].marker_color = UserColor
  /\ Added[6].fillcolor = UserColor

\* C6: a call with include_legend = true returns a figure whose legend is
\* not hidden and is horizontal, also for a figure an earlier call with
\* include_legend = false returned.
C6_LegendShown ==
  (Returned /\ last.include_legend) =>
    /\ fig.layout.showlegend # "False"
    /\ fig.layout.legend_orientation = "h"

\* C7: a call with include_legend = false returns a figure whose legend is
\* hidden at figure level, whatever the traces and the figure's setting
\* before the call.
C7_LegendHidden ==
  (Returned /\ ~last.include_legend) => fig.layout.showlegend = "False"

C7_Witness ==
  /\ Returned
  /\ ~last.include_legend
  /\ last.pre.layout.showlegend = "True"
  /\ Len(Added) = 6
  /\ fig.data[1].showlegend = "True"
  /\ fig.layout.showlegend = "False"

\* C8: for every table with ds and yhat, every combination of optional
\* columns and model attributes and every setting of the options, the call
\* returns a figure and does not fail.
C8_NeverFails == last.called => last.exc = ""

\* C9: DEFAULT_PALETTE keeps its four original colours through every
\* sequence and every interleaving of calls, and a call that does not
\* override a role works with the original default colour of that role and
\* draws the traces of that role in it.
C9_DefaultPaletteKept ==
  /\ DEFAULT_PALETTE = DefaultColors
  /\ last.called =>
       \A r \in Roles :
         ~(last.colors.given /\ r \in DOMAIN last.colors.map) =>
           /\ last.palette[r] = DefaultColors[r]
           /\ \A i \in DOMAIN Added : DrawnAs(Added[i], r)

C9_Witness ==
  /\ Returned
  /\ ~last.colors.given
  /\ Added[1].name = "Forecast"
  /\ Added[1].line_color = DefaultColors["forecast"]
  /\ \E u \in Threads :
       /\ calls[u].pc = "resolved"
       /\ "forecast" \in DOMAIN calls[u].colors.map
       /\ locals[u]["forecast"] = UserColor
  /\ DEFAULT_PALETTE = DefaultColors

\* C10: after any number of calls the caller's forecast table has the
\* columns, rows, row order and values it had before the first call.
C10_TableKept == fcst = fcst0

C10_Witness ==
  /\ Returned
  /\ HasNamed(last.pre.data, "Forecast")
  /\ OptionalColumns \subseteq DOMAIN fcst
  /\ Len(Added) = 6
  /\ fcst = fcst0

====
